---- MODULE Spec2Model ----
(***************************************************************************)
(* A model of handlebars-repeat's RepeatHelper::call (src/src/lib.rs).     *)
(*                                                                         *)
(* The helper is re-entrant through the engine's template render: the      *)
(* body of a repeat block may itself hold a repeat block.  The model keeps *)
(* the render context's block stack (rc), the output sink (out) and the    *)
(* stack of active helper invocations (calls), each with the position of  *)
(* the invocation in the code of call().                                   *)
(***************************************************************************)
EXTENDS Integers, Sequences, FiniteSets, TLC

\* The largest value of the model's u64 (count and i are u64 in the source).
U64Max == 3
\* The number of repeat invocations one render makes, nested ones included.
MaxCalls == 2

U64Modulus == U64Max + 1
U64 == 0 .. U64Max

\* u64 addition within the width: the step of the range 0..count.
wrapping_add(a, b) == (a + b) % U64Modulus

\* u64 subtraction, wrapping at the width as a release build does.
wrapping_sub(a, b) == (a - b) % U64Modulus

\* Option<T>
None == << >>
Some(v) == << v >>

(***************************************************************************)
(* serde_json::Value, as the engine hands a parameter to the helper.  A    *)
(* Number is a PosInt (u64), a NegInt (i64 below zero) or a Float; v holds *)
(* the integer, and for a Float twice the number (so 3 is 1.5, 4 is 2.0).  *)
(***************************************************************************)
Json(t, v) == [t |-> t, v |-> v]
Absent == Json("Absent", 0)
JsonValues ==
    { Json("PosInt", n) : n \in U64 }
        \cup { Json("NegInt", -1), Json("NegInt", -2) }
        \cup { Json("Float", 3), Json("Float", 4), Json("Float", -1),
               Json("Float", 2 * U64Modulus) }
        \cup { Json("String", 0), Json("Object", 0), Json("Null", 0),
               Json("Bool", 1), Json("Array", 0) }

\* Mutant of as_u64: a number is cast to u64 whatever its type, so that a
\* Float holding a whole number in range (2.0) passes for a count.
as_u64_lossy(value) ==
    IF value.t = "PosInt" THEN Some(value.v)
    ELSE IF value.t = "Float" /\ value.v % 2 = 0 /\ value.v \div 2 \in U64
    THEN Some(value.v \div 2)
    ELSE None

\* Value::as_u64 as RepeatHelper::call uses it: only a PosInt is a u64.
as_u64(value) == IF value.t = "PosInt" THEN Some(value.v) ELSE None

(***************************************************************************)
(* RenderErrorReason                                                       *)
(***************************************************************************)
Reason(r, helper, index, name, expected) ==
    [reason |-> r, helper |-> helper, index |-> index, name |-> name,
     expected |-> expected]
ParamNotFoundForIndex(helper, index) ==
    Reason("ParamNotFoundForIndex", helper, index, "", "")
ParamTypeMismatchForName(helper, name, expected) ==
    Reason("ParamTypeMismatchForName", helper, -1, name, expected)
BlockContentRequired == Reason("BlockContentRequired", "", -1, "", "")
\* A failure the engine raises while it renders nested content.
NestedRenderError == Reason("NestedRenderError", "", -1, "", "")
NoReason == Reason("", "", -1, "", "")

Pending == [status |-> "Pending", error |-> NoReason]
Ok == [status |-> "Ok", error |-> NoReason]
Err(e) == [status |-> "Err", error |-> e]

(***************************************************************************)
(* BlockContext: the local variables index, first, last, one more local    *)
(* variable (key) that an enclosing block may have set, and the base path. *)
(***************************************************************************)
BlockContext(base_path, index, first, last, key) ==
    [base_path |-> base_path, index |-> index, first |-> first,
     last |-> last, key |-> key]
\* BlockContext::default()
DefaultBlock == BlockContext("", None, None, None, None)
\* A block an enclosing helper (such as each) pushed before repeat is called.
EachBlock == BlockContext("items", Some(9), Some(FALSE), Some(FALSE), Some(5))

\* The block stacks the engine may hold when it calls the helper.
EntryStacks == { << >>, << EachBlock >>, << DefaultBlock, EachBlock >> }

\* rc.block(): the innermost block, the front of the deque.
block(rc) == IF rc = << >> THEN None ELSE Some(Head(rc))
\* rc.push_block(b)
push_block(rc, b) == << b >> \o rc
\* rc.pop_block()
pop_block(rc) == IF rc = << >> THEN rc ELSE Tail(rc)

\* The data context of the render: {"name": "foo", "count": n}.
Contexts == { [name |-> "foo", count |-> n] : n \in {0, U64Max} }

\* Helper: what h.param(0), h.template() and h.inverse() give.
Helpers == [param0 : {Absent} \cup JsonValues, template : BOOLEAN, inverse : BOOLEAN]

VARIABLES
    ctx,     \* the data context, never written by the helper
    rc,      \* the render context's block stack, innermost first
    out,     \* the output sink: what each body render wrote, in order
    calls,   \* the active invocations of RepeatHelper::call, outermost first
    ncalls   \* the number of invocations made so far

vars == << ctx, rc, out, calls, ncalls >>

Top == Len(calls)
Cur == calls[Top]

(***************************************************************************)
(* RepeatHelper::call up to the loop: the three checks, in the order of    *)
(* the source.  An invocation records the block stack and the length of    *)
(* the sink on entry, and counts its pushes, pops and renders.             *)
(***************************************************************************)
Invocation(h, pc, result, count, stack, sink) ==
    [h |-> h, pc |-> pc, result |-> result, count |-> count, i |-> 0,
     entry |-> stack, mark |-> Len(sink),
     pushes |-> 0, pops |-> 0, renders |-> 0, inverses |-> 0]

\* Mutant of validate: the template is looked for before the parameter.
validate_body_first(h) ==
    IF ~h.template
    THEN Err(BlockContentRequired)
    ELSE IF h.param0 = Absent
    THEN Err(ParamNotFoundForIndex("repeat", 0))
    ELSE IF as_u64(h.param0) = None
    THEN Err(ParamTypeMismatchForName("repeat", "0", "u64"))
    ELSE Ok

\* Mutant of validate: the template is looked for only when the loop will
\* render it, that is when count > 0.
validate_body_when_iterating(h) ==
    IF h.param0 = Absent
    THEN Err(ParamNotFoundForIndex("repeat", 0))
    ELSE IF as_u64(h.param0) = None
    THEN Err(ParamTypeMismatchForName("repeat", "0", "u64"))
    ELSE IF ~h.template /\ as_u64(h.param0)[1] > 0
    THEN Err(BlockContentRequired)
    ELSE Ok

\* Mutant of validate: an inverse stands in for a missing template.
validate_body_or_inverse(h) ==
    IF h.param0 = Absent
    THEN Err(ParamNotFoundForIndex("repeat", 0))
    ELSE IF as_u64(h.param0) = None
    THEN Err(ParamTypeMismatchForName("repeat", "0", "u64"))
    ELSE IF ~h.template /\ ~h.inverse
    THEN Err(BlockContentRequired)
    ELSE Ok

\* Mutant of validate: the parameter name and the expected type change
\* places in the type mismatch.
validate_swapped_names(h) ==
    IF h.param0 = Absent
    THEN Err(ParamNotFoundForIndex("repeat", 0))
    ELSE IF as_u64(h.param0) = None
    THEN Err(ParamTypeMismatchForName("repeat", "u64", "0"))
    ELSE IF ~h.template
    THEN Err(BlockContentRequired)
    ELSE Ok

validate(h) ==
    IF h.param0 = Absent
    THEN Err(ParamNotFoundForIndex("repeat", 0))
    ELSE IF as_u64(h.param0) = None
    THEN Err(ParamTypeMismatchForName("repeat", "0", "u64"))
    ELSE IF ~h.template
    THEN Err(BlockContentRequired)
    ELSE Ok

\* Mutant of call: with count > 0 the template is looked for inside the
\* loop, once the block of the iteration is on the stack.
call_body_checked_in_loop(h, stack, sink) ==
    IF h.param0 # Absent /\ as_u64(h.param0) # None /\ ~h.template
          /\ as_u64(h.param0)[1] > 0
    THEN Invocation(h, "loop", Pending, as_u64(h.param0)[1], stack, sink)
    ELSE IF validate(h) = Ok
    THEN Invocation(h, "loop", Pending, as_u64(h.param0)[1], stack, sink)
    ELSE Invocation(h, "returned", validate(h), 0, stack, sink)

call(h, stack, sink) ==
    IF validate(h) = Ok
    THEN Invocation(h, "loop", Pending, as_u64(h.param0)[1], stack, sink)
    ELSE Invocation(h, "returned", validate(h), 0, stack, sink)

\* Mutant of new_block: index counts from 1.
new_block_one_based(stack, i, count) ==
    LET base == IF block(stack) = None THEN DefaultBlock ELSE block(stack)[1]
    IN  [base EXCEPT !.index = Some(i + 1),
                     !.first = Some(i = 0),
                     !.last = Some(i = wrapping_sub(count, 1))]

\* Mutant of new_block: last is compared with count, not with count - 1.
new_block_last_at_count(stack, i, count) ==
    LET base == IF block(stack) = None THEN DefaultBlock ELSE block(stack)[1]
    IN  [base EXCEPT !.index = Some(i),
                     !.first = Some(i = 0),
                     !.last = Some(i = count)]

\* Mutant of new_block: the block starts empty, not as a clone of the
\* innermost block.
new_block_from_default(stack, i, count) ==
    [DefaultBlock EXCEPT !.index = Some(i),
                         !.first = Some(i = 0),
                         !.last = Some(i = wrapping_sub(count, 1))]

\* Lines 109-112: the block of iteration i, a clone of the innermost block.
new_block(stack, i, count) ==
    LET base == IF block(stack) = None THEN DefaultBlock ELSE block(stack)[1]
    IN  [base EXCEPT !.index = Some(i),
                     !.first = Some(i = 0),
                     !.last = Some(i = wrapping_sub(count, 1))]

\* What a body render writes: the body, its depth, and the local variables
\* @index, @first, @last and @key as the innermost block resolves them.
Written(body, depth, stack) ==
    LET b == IF block(stack) = None THEN DefaultBlock ELSE block(stack)[1]
    IN  [body |-> body, depth |-> depth, index |-> b.index, first |-> b.first,
         last |-> b.last, key |-> b.key]

Init ==
    /\ ctx \in Contexts
    /\ rc \in EntryStacks
    /\ out = << >>
    /\ calls = << >>
    /\ ncalls = 0

\* The engine reaches the outermost repeat block and calls the helper.
HostCall ==
    /\ calls = << >>
    /\ \E h \in Helpers : calls' = << call(h, rc, out) >>
    /\ ncalls' = 1
    /\ UNCHANGED << ctx, rc, out >>

\* Mutant of PushFrame: the range is inclusive, 0..=count.
PushFrame_inclusive ==
    /\ calls # << >>
    /\ Cur.pc = "loop"
    /\ Cur.i <= Cur.count
    /\ rc' = push_block(rc, new_block(rc, Cur.i, Cur.count))
    /\ calls' = [calls EXCEPT ![Top] =
                    [@ EXCEPT !.pc = "render", !.pushes = @ + 1]]
    /\ UNCHANGED << ctx, out, ncalls >>

\* Lines 108-113: the loop goes on; the block of iteration i is pushed.
PushFrame ==
    /\ calls # << >>
    /\ Cur.pc = "loop"
    /\ Cur.i < Cur.count
    /\ rc' = push_block(rc, new_block(rc, Cur.i, Cur.count))
    /\ calls' = [calls EXCEPT ![Top] =
                    [@ EXCEPT !.pc = "render", !.pushes = @ + 1]]
    /\ UNCHANGED << ctx, out, ncalls >>

\* Line 115: the engine renders the template; it succeeds, or fails and the
\* ? operator returns the error at once.
RenderTemplate ==
    /\ calls # << >>
    /\ Cur.pc = "render"
    /\ out' = Append(out, Written("template", Top, rc))
    /\ \E ok \in BOOLEAN :
          calls' = [calls EXCEPT ![Top] =
                      IF ok
                      THEN [@ EXCEPT !.pc = "pop", !.renders = @ + 1]
                      ELSE [@ EXCEPT !.pc = "returned", !.renders = @ + 1,
                                     !.result = Err(NestedRenderError)]]
    /\ UNCHANGED << ctx, rc, ncalls >>

\* Line 115: the template holds a repeat block, and the engine calls the
\* helper for it while it renders the template.
RenderTemplateNested ==
    /\ calls # << >>
    /\ Cur.pc = "render"
    /\ ncalls < MaxCalls
    /\ out' = Append(out, Written("template", Top, rc))
    /\ \E h \in Helpers :
          calls' = Append([calls EXCEPT ![Top] =
                             [@ EXCEPT !.pc = "in_render", !.renders = @ + 1]],
                          call(h, rc, out'))
    /\ ncalls' = ncalls + 1
    /\ UNCHANGED << ctx, rc >>

\* Mutant of PopFrame: the loop steps on and leaves the block on the stack.
PopFrame_keep ==
    /\ calls # << >>
    /\ Cur.pc = "pop"
    /\ calls' = [calls EXCEPT ![Top] =
                    [@ EXCEPT !.pc = "loop", !.i = wrapping_add(@, 1), !.pops = @ + 1]]
    /\ UNCHANGED << ctx, rc, out, ncalls >>

\* Line 117: the block is popped and the loop steps to the next i.
PopFrame ==
    /\ calls # << >>
    /\ Cur.pc = "pop"
    /\ rc' = pop_block(rc)
    /\ calls' = [calls EXCEPT ![Top] =
                    [@ EXCEPT !.pc = "loop", !.i = wrapping_add(@, 1), !.pops = @ + 1]]
    /\ UNCHANGED << ctx, out, ncalls >>

\* Mutant of LoopExit: the inverse is rendered after the loop whatever count.
LoopExit_inverse_always ==
    /\ calls # << >>
    /\ Cur.pc = "loop"
    /\ ~(Cur.i < Cur.count)
    /\ calls' = [calls EXCEPT ![Top] =
                    IF Cur.h.inverse
                    THEN [@ EXCEPT !.pc = "inverse"]
                    ELSE [@ EXCEPT !.pc = "returned", !.result = Ok]]
    /\ UNCHANGED << ctx, rc, out, ncalls >>

\* Mutant of LoopExit: the loop may end one iteration early.
LoopExit_early ==
    /\ calls # << >>
    /\ Cur.pc = "loop"
    /\ ~(Cur.i + 1 < Cur.count)
    /\ calls' = [calls EXCEPT ![Top] =
                    IF Cur.count = 0 /\ Cur.h.inverse
                    THEN [@ EXCEPT !.pc = "inverse"]
                    ELSE [@ EXCEPT !.pc = "returned", !.result = Ok]]
    /\ UNCHANGED << ctx, rc, out, ncalls >>

\* Lines 108 and 120-126: the loop is over; with count == 0 and an inverse
\* the inverse is rendered next, otherwise the call returns Ok(()).
LoopExit ==
    /\ calls # << >>
    /\ Cur.pc = "loop"
    /\ ~(Cur.i < Cur.count)
    /\ calls' = [calls EXCEPT ![Top] =
                    IF Cur.count = 0 /\ Cur.h.inverse
                    THEN [@ EXCEPT !.pc = "inverse"]
                    ELSE [@ EXCEPT !.pc = "returned", !.result = Ok]]
    /\ UNCHANGED << ctx, rc, out, ncalls >>

\* Line 122: the engine renders the inverse; the call returns its result.
RenderInverse ==
    /\ calls # << >>
    /\ Cur.pc = "inverse"
    /\ out' = Append(out, Written("inverse", Top, rc))
    /\ \E ok \in BOOLEAN :
          calls' = [calls EXCEPT ![Top] =
                      [@ EXCEPT !.pc = "returned", !.inverses = @ + 1,
                                !.result = IF ok THEN Ok
                                           ELSE Err(NestedRenderError)]]
    /\ UNCHANGED << ctx, rc, ncalls >>

\* Line 122: the inverse holds a repeat block.
RenderInverseNested ==
    /\ calls # << >>
    /\ Cur.pc = "inverse"
    /\ ncalls < MaxCalls
    /\ out' = Append(out, Written("inverse", Top, rc))
    /\ \E h \in Helpers :
          calls' = Append([calls EXCEPT ![Top] =
                             [@ EXCEPT !.pc = "in_inverse", !.inverses = @ + 1]],
                          call(h, rc, out'))
    /\ ncalls' = ncalls + 1
    /\ UNCHANGED << ctx, rc >>

\* Mutant of resume: the error of a nested call is dropped and the loop
\* goes on to the pop and the next iteration.
resume_continue(parent, result) ==
    IF parent.pc = "in_render"
    THEN [parent EXCEPT !.pc = "pop"]
    ELSE [parent EXCEPT !.pc = "returned", !.result = Ok]

\* Lines 115 and 122: a nested call has returned, and with it the render of
\* the body that held it: Ok goes on, an error is returned as it is.
resume(parent, result) ==
    IF parent.pc = "in_render" /\ result = Ok
    THEN [parent EXCEPT !.pc = "pop"]
    ELSE [parent EXCEPT !.pc = "returned", !.result = result]

NestedReturn ==
    /\ Top > 1
    /\ Cur.pc = "returned"
    /\ calls' = [k \in 1 .. Top - 1 |->
                    IF k = Top - 1 THEN resume(calls[k], Cur.result)
                    ELSE calls[k]]
    /\ UNCHANGED << ctx, rc, out, ncalls >>

Next ==
    \/ HostCall
    \/ PushFrame
    \/ RenderTemplate
    \/ RenderTemplateNested
    \/ PopFrame
    \/ LoopExit
    \/ RenderInverse
    \/ RenderInverseNested
    \/ NestedReturn

Spec == Init /\ [][Next]_vars

\* The call runs on one thread and every body render returns: a step that
\* can be taken is taken.
FairSpec == Spec /\ WF_vars(Next)

TypeOK ==
    /\ ctx \in Contexts
    /\ \A k \in 1 .. Len(calls) :
          /\ calls[k].count \in U64
          /\ calls[k].i \in U64
          /\ calls[k].pc \in {"loop", "render", "in_render", "pop", "inverse",
                               "in_inverse", "returned"}


(***************************************************************************)
(* Vocabulary of the properties.                                           *)
(***************************************************************************)
Active == DOMAIN calls
Returned(k) == calls[k].pc = "returned"

\* What the bodies of invocation k itself wrote, in order (the bodies of the
\* invocations nested in it write at a greater depth).
Own(k) ==
    LET AtDepth(t) == t.depth = k
    IN  SelectSeq(SubSeq(out, calls[k].mark + 1, Len(out)), AtDepth)

\* The local variable key as the code that called invocation k resolves it.
EntryKey(k) ==
    IF calls[k].entry = << >> THEN None ELSE Head(calls[k].entry).key

\* What the template of invocation k writes when it is rendered with the
\* loop state of iteration i of n.
Rendered(k, i, n) ==
    [body |-> "template", depth |-> k, index |-> Some(i),
     first |-> Some(i = 0), last |-> Some(i = n - 1), key |-> EntryKey(k)]

\* Invocation k has a frame of its own on the block stack.
HasFrame(k) == calls[k].pc \in {"render", "in_render", "pop"}
\* That frame: the one right above the blocks that were there on entry.
Frame(k) == rc[Len(rc) - Len(calls[k].entry)]

\* Invocation k returned an error before its loop: it rendered no body.
FailedValidation(k) ==
    /\ Returned(k)
    /\ calls[k].result.status = "Err"
    /\ calls[k].renders = 0
    /\ calls[k].inverses = 0

\* A Json value that is a number of an integer type, within 0 .. U64Max.
IsCount(value) ==
    /\ value.t \in {"PosInt", "NegInt"}
    /\ value.v >= 0
    /\ value.v <= U64Max

\* C1: an invocation with count >= 1 that returns Ok has rendered its
\* template exactly count times, and what its bodies wrote to the sink is, in
\* order, the template rendered with index 0, 1, ..., count - 1 (first at 0,
\* last at count - 1) and nothing else.
C1_RendersCountTimesInOrder ==
    \A k \in Active :
        (Returned(k) /\ calls[k].result = Ok /\ calls[k].count >= 1)
            => /\ calls[k].renders = calls[k].count
               /\ Own(k) = [j \in 1 .. calls[k].count |->
                              Rendered(k, j - 1, calls[k].count)]

C1_Witness ==
    /\ calls # << >>
    /\ Returned(1)
    /\ calls[1].result = Ok
    /\ calls[1].count = U64Max
    /\ Len(Own(1)) = U64Max

\* C2: in every frame an invocation has pushed, first holds exactly when
\* index is 0 and last exactly when index is count - 1; with count 1 the
\* frame has both, with count >= 2 no frame has both.
C2_LoopLocalsConsistent ==
    \A k \in Active :
        HasFrame(k) =>
            LET f == Frame(k)
                n == calls[k].count
            IN  /\ n >= 1
                /\ f.index = Some(calls[k].i)
                /\ f.first = Some(f.index[1] = 0)
                /\ f.last = Some(f.index[1] = n - 1)
                /\ (n = 1 => f.first = Some(TRUE) /\ f.last = Some(TRUE))
                /\ (n >= 2 => ~(f.first = Some(TRUE) /\ f.last = Some(TRUE)))

C2_Witness ==
    /\ Top = 2
    /\ HasFrame(1) /\ HasFrame(2)
    /\ calls[1].count = 1
    /\ calls[2].count >= 2
    /\ Frame(2).last = Some(TRUE)
    /\ Frame(1).first = Some(TRUE) /\ Frame(1).last = Some(TRUE)

\* C3: an invocation with count 0 and a template pushes no frame and never
\* renders the template; an inverse is rendered exactly once, on the block
\* stack as it was on entry; without an inverse nothing is written and the
\* invocation returns Ok.
C3_ZeroCount ==
    \A k \in Active :
        (calls[k].h.param0 = Json("PosInt", 0) /\ calls[k].h.template)
            => /\ calls[k].pushes = 0
               /\ calls[k].renders = 0
               /\ (calls[k].pc = "inverse" => rc = calls[k].entry)
               /\ (Returned(k) /\ calls[k].h.inverse
                     => /\ calls[k].inverses = 1
                        /\ Own(k) = << Written("inverse", k, calls[k].entry) >>)
               /\ (~calls[k].h.inverse
                     => /\ Len(out) = calls[k].mark
                        /\ rc = calls[k].entry
                        /\ calls[k].inverses = 0
                        /\ (Returned(k) => calls[k].result = Ok))

C3_Witness ==
    /\ Top = 1
    /\ Returned(1)
    /\ calls[1].h = [param0 |-> Json("PosInt", 0), template |-> TRUE,
                     inverse |-> TRUE]
    /\ calls[1].result = Ok
    /\ calls[1].entry # << >>
    /\ Len(out) = 1

\* C4: the inverse is rendered when and only when count is 0: an invocation
\* with count >= 1 never renders it, one with count 0 and an inverse has
\* rendered it when it returns, and no invocation renders both bodies.
C4_InverseIffZero ==
    \A k \in Active :
        /\ (calls[k].inverses > 0 \/ calls[k].pc \in {"inverse", "in_inverse"})
              => calls[k].count = 0
        /\ ~(calls[k].renders > 0 /\ calls[k].inverses > 0)
        /\ (calls[k].count >= 1
              => Own(k) = SelectSeq(Own(k), LAMBDA t : t.body = "template"))
        /\ (Returned(k) /\ ~FailedValidation(k)
              /\ calls[k].count = 0 /\ calls[k].h.inverse)
              => calls[k].inverses = 1

C4_Witness ==
    /\ Top = 1
    /\ Returned(1)
    /\ calls[1].h.inverse
    /\ calls[1].count >= 2
    /\ calls[1].renders = calls[1].count
    /\ calls[1].inverses = 0

\* C5: when the render of the template fails, the frame of that iteration is
\* popped before the error is returned: the invocation returns the failure
\* with the block stack as it was on entry.
C5_FramePoppedOnFailure ==
    \A k \in Active :
        (Returned(k) /\ calls[k].result.status = "Err" /\ calls[k].renders >= 1)
            => rc = calls[k].entry

\* C6: an invocation that returns Ok leaves the block stack exactly as it
\* was on entry, whatever count and with or without an inverse.
C6_StackRestoredOnSuccess ==
    \A k \in Active :
        (Returned(k) /\ calls[k].result = Ok)
            => /\ rc = calls[k].entry
               /\ calls[k].pops = calls[k].pushes

C6_Witness ==
    /\ Top = 1
    /\ Returned(1)
    /\ calls[1].result = Ok
    /\ calls[1].pushes >= 2
    /\ calls[1].entry # << >>
    /\ ncalls = 2

\* C7: without parameter 0 the invocation fails with
\* ParamNotFoundForIndex("repeat", 0), whatever the data context holds and
\* whatever bodies are attached.
C7_MissingArgument ==
    \A k \in Active :
        calls[k].h.param0 = Absent
            => /\ Returned(k)
               /\ calls[k].result = Err(ParamNotFoundForIndex("repeat", 0))

C7_Witness ==
    /\ Top = 1
    /\ calls[1].h.param0 = Absent
    /\ ~calls[1].h.template
    /\ ctx.count > 0
    /\ calls[1].result = Err(ParamNotFoundForIndex("repeat", 0))

\* C8: a parameter 0 that is present fails with the type mismatch of helper
\* "repeat" exactly when it is not a number of an integer type within
\* 0 .. U64Max (a string, an object, a negative number, a float), whatever
\* bodies are attached; a count in range is taken as the count.
C8_TypeMismatch ==
    \A k \in Active :
        calls[k].h.param0 # Absent
            => /\ ~IsCount(calls[k].h.param0)
                    => /\ Returned(k)
                       /\ calls[k].result.status = "Err"
                       /\ calls[k].result.error.reason = "ParamTypeMismatchForName"
                       /\ calls[k].result.error.helper = "repeat"
               /\ IsCount(calls[k].h.param0)
                    => /\ FailedValidation(k)
                             => calls[k].result = Err(BlockContentRequired)
                       /\ calls[k].h.template
                             => /\ ~FailedValidation(k)
                                /\ calls[k].count = calls[k].h.param0.v

C8_Witness ==
    /\ Top = 2
    /\ calls[1].h.param0 = Json("PosInt", U64Max)
    /\ calls[1].count = U64Max
    /\ calls[2].h.param0 = Json("Float", 4)
    /\ calls[2].h.template
    /\ calls[2].result.error.reason = "ParamTypeMismatchForName"

\* C9 as stated: without a template the invocation fails with
\* BlockContentRequired, whether the parameter is a count, absent or of an
\* incompatible type.
C9_Original ==
    \A k \in Active :
        ~calls[k].h.template
            => /\ Returned(k)
               /\ calls[k].result = Err(BlockContentRequired)

\* C9 as amended: without a template and with a parameter that is a count,
\* the invocation fails with BlockContentRequired, whatever the count.
C9_MissingBlock ==
    \A k \in Active :
        (~calls[k].h.template /\ IsCount(calls[k].h.param0))
            => /\ Returned(k)
               /\ calls[k].result = Err(BlockContentRequired)
               /\ calls[k].pushes = 0

C9_Witness ==
    /\ Top = 1
    /\ ~calls[1].h.template
    /\ ~calls[1].h.inverse
    /\ calls[1].h.param0 = Json("PosInt", 0)
    /\ calls[1].result = Err(BlockContentRequired)

\* C10: with count 0, an inverse and no template, the invocation fails with
\* BlockContentRequired and the inverse is not rendered.
C10_BodyCheckedBeforeDispatch ==
    \A k \in Active :
        (calls[k].h = [param0 |-> Json("PosInt", 0), template |-> FALSE,
                       inverse |-> TRUE])
            => /\ Returned(k)
               /\ calls[k].result = Err(BlockContentRequired)
               /\ calls[k].inverses = 0
               /\ Len(out) = calls[k].mark
               /\ rc = calls[k].entry

C10_Witness ==
    /\ Top = 1
    /\ calls[1].h = [param0 |-> Json("PosInt", 0), template |-> FALSE,
                     inverse |-> TRUE]
    /\ calls[1].result = Err(BlockContentRequired)
    /\ out = << >>


\* An invocation that returned an error after it rendered its template: the
\* failing iteration is the last one started, and what iterations 0 .. i
\* wrote is in the sink.
C11_FailedIteration ==
    \A k \in Active :
        (Returned(k) /\ calls[k].result.status = "Err" /\ calls[k].renders >= 1)
            => /\ calls[k].i = calls[k].renders - 1
               /\ calls[k].pushes = calls[k].renders
               /\ calls[k].inverses = 0
               /\ Own(k) = [j \in 1 .. calls[k].renders |->
                              Rendered(k, j - 1, calls[k].count)]

\* A step never takes anything back from the sink; the error a nested call
\* returns becomes, as it is, the result of the call whose body held it; and
\* a call that has returned pushes, pops and writes nothing more.
C11_Step ==
    /\ Len(out') >= Len(out)
    /\ SubSeq(out', 1, Len(out)) = out
    /\ (Top > 1 /\ Returned(Top) /\ Cur.result.status = "Err")
          => /\ Len(calls') = Top - 1
             /\ calls'[Top - 1].pc = "returned"
             /\ calls'[Top - 1].result = Cur.result
    /\ (Top >= 1 /\ Returned(Top)) => (out' = out /\ rc' = rc)

\* C11: a failure of the render of the template in iteration k (or of the
\* inverse for count 0) is returned as it is, no later iteration is started,
\* and what was written to the sink before the failure stays there.
C11_FailurePropagates == []C11_FailedIteration /\ [][C11_Step]_vars

C11_Witness ==
    /\ Top = 1
    /\ Returned(1)
    /\ calls[1].result.error.reason = "ParamTypeMismatchForName"
    /\ calls[1].h.param0 = Json("PosInt", U64Max)
    /\ calls[1].renders = 2
    /\ Len(out) = 2


\* The innermost block carries the loop state of the iteration that
\* invocation k is in.
SeesOwnBindings(k) ==
    /\ rc # << >>
    /\ Head(rc).index = Some(calls[k].i)
    /\ Head(rc).first = Some(calls[k].i = 0)
    /\ Head(rc).last = Some(calls[k].i = calls[k].count - 1)

\* C12: when a repeat invocation nested in the template of another returns,
\* in outer iteration i, the innermost block again carries the outer
\* index = i, first = (i = 0), last = (i = count - 1), and nothing of the
\* inner invocation's loop state is visible, whatever the two counts.
C12_OuterBindingsAfterInner ==
    \A k \in Active :
        (k >= 2 /\ Returned(k) /\ calls[k - 1].pc = "in_render")
            => /\ rc = calls[k].entry
               /\ SeesOwnBindings(k - 1)

\* What holds of the code: the same, for an inner invocation that returns Ok.
C12_OuterBindingsAfterInnerOk ==
    \A k \in Active :
        (k >= 2 /\ Returned(k) /\ calls[k - 1].pc = "in_render"
           /\ calls[k].result = Ok)
            => /\ rc = calls[k].entry
               /\ SeesOwnBindings(k - 1)


\* C13 as stated: the type mismatch raised for an incompatible parameter
\* names helper "repeat", parameter 0 and the expected type
\* "non-negative integer".
C13_Original ==
    \A k \in Active :
        (calls[k].h.param0 # Absent /\ ~IsCount(calls[k].h.param0))
            => /\ calls[k].result.error.reason = "ParamTypeMismatchForName"
               /\ calls[k].result.error.helper = "repeat"
               /\ calls[k].result.error.name = "0"
               /\ calls[k].result.error.expected = "non-negative integer"

\* C13 as amended: the type mismatch raised for an incompatible parameter
\* names helper "repeat", parameter "0" and the expected type "u64".
C13_MismatchFields ==
    \A k \in Active :
        (calls[k].h.param0 # Absent /\ ~IsCount(calls[k].h.param0))
            => /\ Returned(k)
               /\ calls[k].result =
                    Err(ParamTypeMismatchForName("repeat", "0", "u64"))
               /\ calls[k].result.error.expected = "u64"
               /\ calls[k].result.error.name = "0"

C13_Witness ==
    /\ Top = 1
    /\ calls[1].h.param0 = Json("String", 0)
    /\ calls[1].h.template
    /\ calls[1].result.error.reason = "ParamTypeMismatchForName"
    /\ calls[1].result.error.expected = "u64"


\* One of the three checks of invocation k fails.
FailsACheck(k) ==
    \/ calls[k].h.param0 = Absent
    \/ ~IsCount(calls[k].h.param0)
    \/ ~calls[k].h.template

\* C14: an invocation that ends in one of the three validation failures has
\* pushed and popped no frame, rendered neither body and written nothing:
\* it returns at once, the block stack and the sink as they were on entry.
C14_ValidationBeforeIteration ==
    \A k \in Active :
        FailsACheck(k)
            => /\ Returned(k)
               /\ calls[k].result.status = "Err"
               /\ calls[k].result.error.reason \in
                    {"ParamNotFoundForIndex", "ParamTypeMismatchForName",
                     "BlockContentRequired"}
               /\ calls[k].pushes = 0
               /\ calls[k].pops = 0
               /\ calls[k].renders = 0
               /\ calls[k].inverses = 0
               /\ Len(out) = calls[k].mark
               /\ rc = calls[k].entry

C14_Witness ==
    /\ Top = 2
    /\ calls[2].h = [param0 |-> Json("PosInt", U64Max), template |-> FALSE,
                     inverse |-> TRUE]
    /\ calls[2].result = Err(BlockContentRequired)
    /\ calls[1].pc = "in_render"
    /\ Len(rc) = Len(calls[1].entry) + 1
    /\ Len(out) = 1


\* The failure the three checks give when they are made in the order
\* (1) parameter present, (2) parameter a count, (3) template attached.
FirstFailure(h) ==
    IF h.param0 = Absent THEN "ParamNotFoundForIndex"
    ELSE IF ~IsCount(h.param0) THEN "ParamTypeMismatchForName"
    ELSE IF ~h.template THEN "BlockContentRequired"
    ELSE ""

\* C15: the checks are made in the order parameter present, parameter a
\* count, template attached, and the first one that fails decides the error:
\* without a template, an absent parameter gives ParamNotFoundForIndex and
\* an incompatible one ParamTypeMismatchForName; BlockContentRequired is
\* reported only for a parameter that is present and a count.
C15_ValidationOrder ==
    \A k \in Active :
        /\ FirstFailure(calls[k].h) # ""
              => /\ Returned(k)
                 /\ calls[k].result.error.reason = FirstFailure(calls[k].h)
        /\ FirstFailure(calls[k].h) = "" => ~FailedValidation(k)
        /\ (FailedValidation(k) /\ calls[k].result = Err(BlockContentRequired))
              => /\ calls[k].h.param0 # Absent
                 /\ IsCount(calls[k].h.param0)
                 /\ ~calls[k].h.template

C15_Witness ==
    /\ Top = 2
    /\ calls[2].h.param0 = Json("Float", 3)
    /\ ~calls[2].h.template
    /\ calls[2].result.error.reason = "ParamTypeMismatchForName"
    /\ calls[1].pc = "in_render"


\* The block that was innermost when invocation k was called, or the default
\* block when there was none.
EntryBlock(k) ==
    IF calls[k].entry = << >> THEN DefaultBlock ELSE Head(calls[k].entry)

\* The blocks of the stack below the ones pushed since invocation k began.
Enclosing(k) == SubSeq(rc, Len(rc) - Len(calls[k].entry) + 1, Len(rc))

\* C16: the frame of an iteration is a copy of the block that was innermost
\* when the iteration began (the default block if none), with index, first
\* and last overwritten and nothing else; the enclosing blocks stay on the
\* stack as they were, their own index, first and last included.
C16_FrameIsShadowingCopy ==
    \A k \in Active :
        /\ Len(rc) >= Len(calls[k].entry)
        /\ Enclosing(k) = calls[k].entry
        /\ HasFrame(k)
              => /\ Frame(k).key = EntryBlock(k).key
                 /\ Frame(k).base_path = EntryBlock(k).base_path
                 /\ Frame(k) = [EntryBlock(k) EXCEPT
                                  !.index = Some(calls[k].i),
                                  !.first = Frame(k).first,
                                  !.last = Frame(k).last]
                 /\ Frame(k).first \in {Some(TRUE), Some(FALSE)}
                 /\ Frame(k).last \in {Some(TRUE), Some(FALSE)}

C16_Witness ==
    /\ Top = 1
    /\ calls[1].pc = "pop"
    /\ calls[1].entry = << EachBlock >>
    /\ calls[1].i = 1
    /\ rc = << [EachBlock EXCEPT !.index = Some(1), !.first = Some(FALSE),
                                 !.last = Some(FALSE)], EachBlock >>
    /\ out[2].key = EachBlock.key


\* Where invocation k is in the sequence Push(0), Render(0), Pop(0),
\* Push(1), ...: its counts of pushes, renders and pops against i.
C17_Order ==
    \A k \in Active :
        LET a == calls[k]
        IN  /\ a.pushes - a.pops \in {0, 1}
            /\ a.pc = "loop"
                 => a.pushes = a.i /\ a.renders = a.i /\ a.pops = a.i
                    /\ a.i <= a.count
            /\ a.pc = "render"
                 => a.pushes = a.i + 1 /\ a.renders = a.i /\ a.pops = a.i
                    /\ a.i < a.count
            /\ a.pc \in {"in_render", "pop"}
                 => a.pushes = a.i + 1 /\ a.renders = a.i + 1 /\ a.pops = a.i
                    /\ a.i < a.count
            /\ a.pc \in {"inverse", "in_inverse"}
                 => a.pushes = 0 /\ a.renders = 0 /\ a.pops = 0
            /\ (a.pc = "returned" /\ a.result = Ok)
                 => a.pushes = a.count /\ a.renders = a.count
                    /\ a.pops = a.count /\ a.i = a.count
            /\ (a.pc = "returned" /\ a.result.status = "Err")
                 => a.pops = a.i /\ a.renders = a.pushes
                    /\ a.pushes \in {a.i, a.i + 1}
            /\ (k = Top /\ a.pc # "returned")
                 => Len(rc) = Len(a.entry) + a.pushes - a.pops

\* One step of invocation k: at most one event, each in its turn, and none
\* once the invocation has returned.
C17_Step ==
    \A k \in Active :
        k <= Len(calls')
            => LET a == calls[k]
                   b == calls'[k]
               IN  /\ b.pushes \in {a.pushes, a.pushes + 1}
                   /\ b.renders \in {a.renders, a.renders + 1}
                   /\ b.pops \in {a.pops, a.pops + 1}
                   /\ b.i \in {a.i, a.i + 1}
                   /\ (b.pushes - a.pushes) + (b.renders - a.renders)
                         + (b.pops - a.pops) <= 1
                   /\ b.pushes = a.pushes + 1
                        => a.pops = a.pushes /\ a.renders = a.pushes
                   /\ b.renders = a.renders + 1 => a.pushes = a.renders + 1
                   /\ b.pops = a.pops + 1 => a.renders = a.pops + 1
                   /\ a.pc = "returned"
                        => b = a /\ out' = out /\ rc' = rc

\* The outermost invocation has reached a terminal state.
C17_Terminal ==
    /\ Top = 1
    /\ Returned(1)
    /\ calls[1].result.status \in {"Ok", "Err"}

\* C17: within an invocation the events are Push(0), Render(0), Pop(0),
\* Push(1), ... in this order, a frame is pushed only once the one before is
\* popped, no iteration is skipped; every invocation ends in one terminal
\* state and does nothing after it.
C17_SequentialAndTerminates ==
    /\ []C17_Order
    /\ [][C17_Step]_vars
    /\ <>[]C17_Terminal

C17_Witness ==
    /\ Top = 1
    /\ Returned(1)
    /\ calls[1].result = Ok
    /\ calls[1].pushes = U64Max
    /\ calls[1].pops = U64Max
    /\ ncalls = MaxCalls


\* Invocation k has evaluated count - 1 only with count >= 1, where it does
\* not wrap, and its i is within 0 .. count.
C18_InRange ==
    \A k \in Active :
        LET a == calls[k]
        IN  /\ a.i \in 0 .. a.count
            /\ a.count \in U64
            /\ a.pushes > 0 => a.count >= 1
            /\ a.count = 0 => a.pushes = 0
            /\ HasFrame(k)
                 => /\ a.count >= 1
                    /\ a.i \in 0 .. a.count - 1
                    /\ wrapping_sub(a.count, 1) = a.count - 1
                    /\ Frame(k).index = Some(a.i)
                    /\ Frame(k).last = Some(a.i = a.count - 1)

\* The i of an invocation only grows, by one at a time: it never wraps.
C18_Step ==
    \A k \in Active :
        k <= Len(calls') => calls'[k].i \in {calls[k].i, calls[k].i + 1}

\* C18: count - 1 is evaluated only inside the loop, so only with
\* count >= 1, and never underflows (not for count = 0 either); i stays
\* within 0 .. count - 1 in the loop and never wraps, for every count up to
\* the largest u64.
C18_NoUnderflowNoWrap == []C18_InRange /\ [][C18_Step]_vars

C18_Witness ==
    /\ Top = 1
    /\ Returned(1)
    /\ calls[1].result = Ok
    /\ calls[1].count = U64Max
    /\ calls[1].i = U64Max
    /\ out[U64Max].last = Some(TRUE)
    /\ out[U64Max].index = Some(U64Max - 1)

====
